---- MODULE Spec2Model ----
(***************************************************************************)
(* The turn orchestrator of backend/src/orchestrator.ts (the pipelined     *)
(* ConversationOrchestrator, lines 715-1840) for one conversation of the   *)
(* conversation store.                                                     *)
(*                                                                         *)
(* One step of the model is one run of the JavaScript event loop on the    *)
(* conversation: a socket event (user:speak, user:interrupt,               *)
(* audio:playback:ended), a timer tick, or the completion of an awaited    *)
(* I/O operation, together with every synchronous statement and every      *)
(* promise continuation that runs before the next awaited I/O operation.   *)
(***************************************************************************)
EXTENDS Integers, Sequences, FiniteSets, TLC

(* ------------------------------ bounds -------------------------------- *)
\* coordinator executions in flight at a time
MaxChains == 2
\* prepareFollowUp executions in flight at a time
MaxPreps == 2
\* calls of processUserSpeech per run
MaxUtterances == 2
\* length of the message history
MaxMsgs == 4
\* length of the message history in the runs with no interruption
LongMsgs == 6
\* calls of interruptConversation per run
MaxInterrupts == 1
\* audio chunks of one synthesizeStream stream
NumChunks == 1
\* largest score the scorer returns in the model
MaxScore == 6
\* agents of the conversation when coordinator executions overlap
MaxAgents == 2
\* conversations created in the store per run
MaxConversations == 2
\* client connections
MaxSockets == 2
\* words of a user message whose addressee is resolved
MaxWords == 3
\* agent identifiers in one call of startConversation
MaxRequested == 4

(* ------------------------- program constants -------------------------- *)
MAX_AGENTS == 3
MAX_AGENT_TURNS == 3
MIN_SCORE_THRESHOLD == 6
\* what ClaudeService.scoreResponse returns when its request fails
DEFAULT_SCORE == 5

AllAgents == <<"a1", "a2", "a3">>
NoAgent == "none"
Scores == (MIN_SCORE_THRESHOLD - 1)..MaxScore
ChainIds == 1..MaxChains
PrepIds == 1..MaxPreps
ConvIds == 1..MaxConversations
SocketIds == 1..MaxSockets
\* the runs explored: two coordinator executions at a time among two agents, or
\* one at a time among three agents, with a longer history
Concurrent == [chains |-> MaxChains, utterances |-> MaxUtterances, msgs |-> MaxMsgs,
               interrupts |-> MaxInterrupts, agents |-> MaxAgents]
Sequential == [chains |-> 1, utterances |-> MaxUtterances, msgs |-> MaxMsgs + 1,
               interrupts |-> MaxInterrupts, agents |-> MaxAgents + 1]
\* runs with no interruption and a long history
Uninterrupted == [chains |-> MaxChains, utterances |-> MaxUtterances, msgs |-> LongMsgs,
                  interrupts |-> 0, agents |-> MaxAgents]
\* the runs of each conversation of a store that holds several: one agent, one
\* utterance
Shared == [chains |-> 1, utterances |-> 1, msgs |-> MaxMsgs,
           interrupts |-> MaxInterrupts, agents |-> 1]
\* the runs in which the services may fail: one execution at a time, or an
\* utterance that arrives while the opening turn is still under way
Faulty == [chains |-> 1, utterances |-> MaxUtterances, msgs |-> MaxMsgs + 1,
           interrupts |-> 0, agents |-> MaxAgents]
FaultyOverlapping == [chains |-> MaxChains, utterances |-> 1, msgs |-> MaxMsgs - 1,
                      interrupts |-> 0, agents |-> MaxAgents]

VARIABLES
  started,                \* the conversation is in the conversations map
  nAgents,                \* state.agents.length
  agentOnlyMode,          \* state.agentOnlyMode
  messages,               \* state.messages
  status,                 \* state.status
  currentSpeaker,         \* state.currentSpeaker (NoAgent: undefined)
  isInterrupted,          \* state.isInterrupted
  audioPlaybackResolver,  \* state.audioPlaybackResolver: the chain whose wait it resolves, 0: undefined
  preparedFollowUp,       \* state.preparedFollowUp
  chains,                 \* the coordinator executions and where each is suspended
  preps,                  \* the prepareFollowUp executions and where each is suspended
  out,                    \* the notifications emitted by the last step
  nUtterances,            \* calls of processUserSpeech so far
  lastRound,              \* the selection round the last step joined: candidates, scores, winner
  limits,                 \* the bounds of the run: chains, preps, msgs, interrupts, agents
  quiet,                  \* interruptConversation was called when every coordinator execution
                          \* was in a playback wait, and no utterance was submitted since
  nInterrupts,            \* calls of interruptConversation so far
  overflow,               \* a bound of the model was hit inside a step
  conversations,          \* the states of the conversations created, by identifier
  conversationIds,        \* the keys of the conversations map, in insertion order
  created,                \* the identifiers ConversationModel.create has returned
  lastCall,               \* the call the last step of the store made: operation,
                          \* identifier, error thrown
  addressing,             \* the last resolution of the addressed agent: the user
                          \* message, the number of agents, the candidates
  request,                \* the last call of startConversation: its identifier,
                          \* agentIds, agentOnlyMode and the error thrown
  sockets                 \* the connections: socketConversations, the sockets
                          \* connected, and the socket that started each conversation

vars == <<started, nAgents, agentOnlyMode, messages, status, currentSpeaker,
          isInterrupted, audioPlaybackResolver, preparedFollowUp, chains, preps,
          out, nUtterances, lastRound, limits, quiet, nInterrupts, overflow,
          conversations, conversationIds, created, lastCall, addressing, request, sockets>>

\* the conversations map of the orchestrator
storeVars == <<conversations, conversationIds, created, lastCall>>

(* ------------------------------ values -------------------------------- *)
NoFollowUp == [agentId |-> NoAgent, score |-> 0, intr |-> FALSE]
\* texts: the generator each candidate's text comes from; error: the await of
\* the last step failed ("transcription", "turn", "speculative")
NoRound == [round |-> "none", cands |-> <<>>, scores |-> <<>>, winner |-> NoAgent,
            outcomes |-> <<>>, texts |-> <<>>, error |-> "none"]

\* a coordinator execution: pc is the await it is suspended in, fn the function
\* it is in (gar: generateAgentResponse, cc: continueConversation,
\* cao: continueAgentOnlyConversation), last the agent of its current turn, prep
\* the pending promise of the prepareFollowUp it started (0: none or settled),
\* k the chunks received, cands the candidates of its round; intStt, intGen,
\* intTts record that interruptConversation was called while it was
\* transcribing, in the generation wait of its initial round, or synthesizing
\* its current turn (intStt and intGen until the round's turn is announced);
\* intIdle records that its utterance was submitted while the conversation was
\* idle with the interrupted flag still set
IdleChain == [pc |-> "unused", fn |-> "none", last |-> NoAgent, prep |-> 0,
              k |-> 0, cands |-> <<>>,
              intStt |-> FALSE, intGen |-> FALSE, intTts |-> FALSE, intIdle |-> FALSE]

\* a prepareFollowUp execution: last is its lastSpeakerId, agentId and score its
\* best follow-up, k the chunks received; intr records that interruptConversation was called while it was in flight
IdlePrep == [pc |-> "unused", last |-> NoAgent, agentId |-> NoAgent,
             score |-> 0, k |-> 0, intr |-> FALSE]

\* state.agents, in the order of agentIds
Agents(n) == SubSeq(AllAgents, 1, n)

Range(s) == {s[i] : i \in 1..Len(s)}

IsAgent(sp) == sp \in Range(AllAgents)

\* a notification: ev is the event, val its status, agent, kind ("initial",
\* "sync": generated in the continuation, "hit": taken from preparedFollowUp)
\* and score describe the turn it is about; tainted, intStt, intGen, intTts
\* say whether interruptConversation was called while that turn was being
\* prepared, transcribed, generated in the initial round, or synthesized, and
\* intIdle whether it was called while the conversation was idle, before the
\* utterance the turn answers
Event(ev) == [ev |-> ev, val |-> "none", agent |-> NoAgent, kind |-> "none", score |-> 0,
              tainted |-> FALSE, intStt |-> FALSE, intGen |-> FALSE, intTts |-> FALSE,
              intIdle |-> FALSE]

StatusUpdate(st) == [Event("status:update") EXCEPT !.val = st]

\* the ConversationState startConversation builds for a run with bounds lim,
\* before it is put in the map
NewState(lim) ==
  [started |-> FALSE, nAgents |-> 0, agentOnlyMode |-> FALSE, messages |-> <<>>,
   status |-> "idle", currentSpeaker |-> NoAgent, isInterrupted |-> FALSE,
   audioPlaybackResolver |-> 0, preparedFollowUp |-> NoFollowUp,
   chains |-> [c \in ChainIds |-> IdleChain], preps |-> [p \in PrepIds |-> IdlePrep],
   out |-> {}, nUtterances |-> 0, lastRound |-> NoRound, limits |-> lim,
   quiet |-> FALSE, nInterrupts |-> 0, overflow |-> FALSE]

\* a call of the orchestrator: op is the operation, id the identifier it is
\* given, error the error it throws
NoCall == [op |-> "none", id |-> 0, error |-> "none"]

\* the state of the conversation as one record, for the operators below
Cur == [started |-> started, nAgents |-> nAgents, agentOnlyMode |-> agentOnlyMode,
        messages |-> messages, status |-> status, currentSpeaker |-> currentSpeaker,
        isInterrupted |-> isInterrupted,
        audioPlaybackResolver |-> audioPlaybackResolver,
        preparedFollowUp |-> preparedFollowUp, chains |-> chains, preps |-> preps,
        out |-> {}, nUtterances |-> nUtterances,
        lastRound |-> NoRound, limits |-> limits,
        quiet |-> quiet, nInterrupts |-> nInterrupts, overflow |-> overflow]

Commit(S) ==
  /\ ~S.overflow
  /\ started' = S.started
  /\ nAgents' = S.nAgents
  /\ agentOnlyMode' = S.agentOnlyMode
  /\ messages' = S.messages
  /\ status' = S.status
  /\ currentSpeaker' = S.currentSpeaker
  /\ isInterrupted' = S.isInterrupted
  /\ audioPlaybackResolver' = S.audioPlaybackResolver
  /\ preparedFollowUp' = S.preparedFollowUp
  /\ chains' = S.chains
  /\ preps' = S.preps
  /\ out' = S.out
  /\ nUtterances' = S.nUtterances
  /\ lastRound' = S.lastRound
  /\ limits' = S.limits
  /\ quiet' = S.quiet
  /\ nInterrupts' = S.nInterrupts
  /\ overflow' = S.overflow
  /\ UNCHANGED <<storeVars, addressing, request, sockets>>

\* every socket is connected and has started nothing
NoSockets == [conversationOf |-> [s \in SocketIds |-> 0],
              owner |-> [id \in ConvIds |-> 0],
              connected |-> SocketIds]

\* startConversation has not been called
NoRequest == [id |-> 0, agentIds |-> <<>>, agentOnlyMode |-> FALSE, error |-> "none"]

\* no user message has been resolved
NoAddressing == [text |-> <<>>, agents |-> 0, agentsToRespond |-> <<>>]

(* --------------------------- pure functions --------------------------- *)
\* messages.slice().reverse().findIndex(m => m.speaker === 'user'): the number
\* of messages after the last user message, -1 when there is no user message
TurnsSinceUser(msgs) ==
  LET us == {i \in 1..Len(msgs) : msgs[i].speaker = "user"}
  IN IF us = {} THEN -1
     ELSE Len(msgs) - (CHOOSE i \in us : \A j \in us : j <= i)

\* state.agents.filter(a => a.id !== lastSpeakerId)
OtherAgents(n, lastSpeakerId) ==
  SelectSeq(Agents(n), LAMBDA a : a # lastSpeakerId)

\* the reduce callback with >= for >: the last of the best candidates wins
BetterLastWins(best, current) == IF current.score >= best.score THEN current ELSE best

\* the callback of the reduce: current.score > best.score ? current : best
Better(best, current) == IF current.score > best.score THEN current ELSE best

RECURSIVE ReduceFrom(_, _, _)
ReduceFrom(responses, i, best) ==
  IF i > Len(responses) THEN best
  ELSE ReduceFrom(responses, i + 1, Better(best, responses[i]))

\* responses.reduce((best, current) => ...), with no initial value
BestResponse(responses) == ReduceFrom(responses, 2, responses[1])

\* the responses of Promise.all, in the order of the candidates
Responses(cands, sc) == [i \in 1..Len(cands) |-> [agentId |-> cands[i], score |-> sc[i]]]

\* the candidates of the initial round: the agent the last user message
\* addresses, or every agent
AgentsToRespond(msgs, n) ==
  LET us == {i \in 1..Len(msgs) : msgs[i].speaker = "user"}
      lastUser == CHOOSE i \in us : \A j \in us : j <= i
  IN IF us # {} /\ msgs[lastUser].addr \in Range(Agents(n))
     THEN <<msgs[lastUser].addr>>
     ELSE Agents(n)

(* ---------------------- shared pieces of the steps --------------------- *)
\* the winner of a round is selected among the joined responses
SelectBest(S, round, cands, sc) ==
  [S EXCEPT !.lastRound = [round |-> round, cands |-> cands, scores |-> sc,
                           winner |-> BestResponse(Responses(cands, sc)).agentId,
                           outcomes |-> [i \in 1..Len(cands) |-> "primary"],
                           texts |-> [i \in 1..Len(cands) |-> "primary"],
                           error |-> "none"]]

\* state.status = st; this.emit('status:update', conversationId, st)
SetStatusNotify(S, st) == [S EXCEPT !.status = st, !.out = @ \cup {StatusUpdate(st)}]

\* the coordinator execution c returns to its caller chain's end
EndChain(S, c) == [S EXCEPT !.chains[c] = IdleChain]

\* state.status = 'idle'; state.currentSpeaker = undefined;
\* this.emit('status:update', conversationId, 'idle'); return
IdleNotifyReturn(S, c) ==
  EndChain([SetStatusNotify(S, "idle") EXCEPT !.currentSpeaker = NoAgent], c)

\* status = 'speaking'; currentSpeaker; emit status:update, agent:speaking;
\* ConversationModel.addMessage; messages.push; emit transcript:update
Speak(S, c, agent, kind, score, tainted) ==
  IF Len(S.messages) >= S.limits.msgs THEN [S EXCEPT !.overflow = TRUE]
  ELSE LET turn == [Event("agent:speaking") EXCEPT
                      !.agent = agent, !.kind = kind, !.score = score,
                      !.tainted = tainted, !.intStt = S.chains[c].intStt,
                      !.intGen = S.chains[c].intGen, !.intIdle = S.chains[c].intIdle]
       IN [S EXCEPT !.status = "speaking", !.currentSpeaker = agent,
                    !.messages = Append(@, [speaker |-> agent, addr |-> NoAgent]),
                    !.out = @ \cup {StatusUpdate("speaking"), turn,
                                    [turn EXCEPT !.ev = "transcript:update"]},
                    !.chains[c].last = agent, !.chains[c].intStt = FALSE,
                    !.chains[c].intGen = FALSE, !.chains[c].intTts = FALSE,
                    !.chains[c].intIdle = FALSE]

\* this.emit('agent:audio', conversationId, buffer) for the turn of c
EmitAudio(S, c, kind, tainted) ==
  [S EXCEPT !.out = @ \cup {[Event("agent:audio") EXCEPT
                               !.agent = S.chains[c].last, !.kind = kind,
                               !.tainted = tainted,
                               !.intTts = S.chains[c].intTts]}]

FreePreps(S) == {p \in PrepIds : S.preps[p].pc = "unused"}

\* prepareFollowUp(conversationId, lastSpeakerId) up to its first await, called
\* from the coordinator execution c, which keeps the promise
PrepareFollowUp(S, c, lastSpeakerId) ==
  IF S.isInterrupted THEN [S EXCEPT !.chains[c].prep = 0]
  ELSE IF TurnsSinceUser(S.messages) >= MAX_AGENT_TURNS THEN [S EXCEPT !.chains[c].prep = 0]
  ELSE IF OtherAgents(S.nAgents, lastSpeakerId) = <<>> THEN [S EXCEPT !.chains[c].prep = 0]
  ELSE IF FreePreps(S) = {} THEN [S EXCEPT !.overflow = TRUE]
  ELSE LET p == CHOOSE q \in FreePreps(S) : \A r \in FreePreps(S) : q <= r
       IN [S EXCEPT !.preps[p] = [IdlePrep EXCEPT !.pc = "gen", !.last = lastSpeakerId],
                    !.chains[c].prep = p]

\* await new Promise(resolve => { state.audioPlaybackResolver = resolve; ... })
WaitForPlayback(S, c) ==
  [S EXCEPT !.audioPlaybackResolver = c, !.chains[c].pc = "play"]

SystemMessage == [speaker |-> "system", addr |-> NoAgent]

UserMessage(addr) == [speaker |-> "user", addr |-> addr]

(* ------------------ continuation after an agent's turn ----------------- *)
\* continueConversation(conversationId, lastSpeakerId), up to its first await
ContinueConversation(S, c, lastSpeakerId) ==
  IF S.isInterrupted THEN EndChain(S, c)
  ELSE IF S.preparedFollowUp # NoFollowUp
  THEN \* pipeline hit
       LET prepared == S.preparedFollowUp
           S1 == Speak(S, c, prepared.agentId, "hit", prepared.score, prepared.intr)
           S2 == EmitAudio(S1, c, "hit", prepared.intr)
           S3 == [S2 EXCEPT !.preparedFollowUp = NoFollowUp, !.chains[c].fn = "cc"]
           S4 == PrepareFollowUp(S3, c, prepared.agentId)
       IN WaitForPlayback(S4, c)
  ELSE \* pipeline miss
       IF TurnsSinceUser(S.messages) >= MAX_AGENT_TURNS
       THEN IdleNotifyReturn(S, c)
       ELSE IF OtherAgents(S.nAgents, lastSpeakerId) = <<>>
       THEN IdleNotifyReturn(S, c)
       ELSE [S EXCEPT !.chains[c].pc = "gen", !.chains[c].fn = "cc",
                      !.chains[c].last = lastSpeakerId, !.chains[c].prep = 0,
                      !.chains[c].cands = OtherAgents(S.nAgents, lastSpeakerId)]

\* continueAgentOnlyConversation(conversationId, lastSpeakerId), up to its first await
ContinueAgentOnlyConversation(S, c, lastSpeakerId) ==
  IF S.isInterrupted THEN EndChain(S, c)
  ELSE IF S.preparedFollowUp # NoFollowUp
  THEN LET prepared == S.preparedFollowUp
           S1 == Speak(S, c, prepared.agentId, "hit", prepared.score, prepared.intr)
           S2 == EmitAudio(S1, c, "hit", prepared.intr)
           S3 == [S2 EXCEPT !.preparedFollowUp = NoFollowUp, !.chains[c].fn = "cao"]
           S4 == PrepareFollowUp(S3, c, prepared.agentId)
       IN WaitForPlayback(S4, c)
  ELSE IF OtherAgents(S.nAgents, lastSpeakerId) = <<>>
       THEN IdleNotifyReturn(S, c)
       ELSE [S EXCEPT !.chains[c].pc = "gen", !.chains[c].fn = "cao",
                      !.chains[c].last = lastSpeakerId, !.chains[c].prep = 0,
                      !.chains[c].cands = OtherAgents(S.nAgents, lastSpeakerId)]

\* if (state.agentOnlyMode) continueAgentOnlyConversation else continueConversation;
\* the recursive calls stay in the function they are made from
Continue(S, c) ==
  IF S.chains[c].fn = "cao" \/ (S.chains[c].fn = "gar" /\ S.agentOnlyMode)
  THEN ContinueAgentOnlyConversation(S, c, S.chains[c].last)
  ELSE ContinueConversation(S, c, S.chains[c].last)

AwaitPreparation(S, c) == [S EXCEPT !.chains[c].pc = "awaitprep"]

\* the code after the playback wait of the coordinator execution c
AfterPlayback(S, c) ==
  LET ch == S.chains[c]
  IN IF ch.fn = "gar"
     THEN IF S.nAgents > 1 /\ ~S.isInterrupted
          THEN IF ch.prep # 0 /\ S.preparedFollowUp = NoFollowUp
               THEN AwaitPreparation(S, c)
               ELSE Continue(S, c)
          ELSE IdleNotifyReturn(S, c)
     ELSE IF ch.fn = "cc"
     THEN IF ch.prep # 0 THEN AwaitPreparation(S, c) ELSE Continue(S, c)
     ELSE IF ch.prep # 0 /\ S.preparedFollowUp = NoFollowUp
          THEN AwaitPreparation(S, c)
          ELSE Continue(S, c)

\* prepareFollowUp p returns: its promise settles, and the coordinator execution
\* that awaits it goes on
FinishPrep(S, p) ==
  LET waiting == {c \in ChainIds : S.chains[c].pc = "awaitprep" /\ S.chains[c].prep = p}
      S1 == [S EXCEPT !.preps[p] = IdlePrep,
                      !.chains = [c \in ChainIds |->
                                    IF S.chains[c].prep = p
                                    THEN [S.chains[c] EXCEPT !.prep = 0]
                                    ELSE S.chains[c]]]
  IN IF waiting = {} THEN S1 ELSE Continue(S1, CHOOSE c \in waiting : TRUE)

(* ------------------------- the steps of a turn ------------------------- *)
\* generateAgentResponse that leaves the interrupted flag as it finds it
GenerateWithoutReset(S, c) ==
  [SetStatusNotify(S, "thinking") EXCEPT !.chains[c].pc = "gen", !.chains[c].fn = "gar",
                                         !.chains[c].cands = AgentsToRespond(S.messages, S.nAgents)]

\* generateAgentResponse from its entry to the await of Promise.all
GenerateAgentResponse(S, c) ==
  LET S1 == [SetStatusNotify(S, "thinking") EXCEPT !.isInterrupted = FALSE]
  IN [S1 EXCEPT !.chains[c].pc = "gen", !.chains[c].fn = "gar",
                !.chains[c].cands = AgentsToRespond(S.messages, S.nAgents)]

\* processUserSpeech after the await of STTService.transcribe; r is "empty" for
\* no speech, else the agent the text addresses or NoAgent
Transcribed(S, c, r) ==
  IF r = "empty"
  THEN EndChain([S EXCEPT !.status = "idle", !.out = @ \cup {Event("error")}], c)
  ELSE IF Len(S.messages) >= S.limits.msgs THEN [S EXCEPT !.overflow = TRUE]
  ELSE GenerateAgentResponse(
         [S EXCEPT !.messages = Append(@, UserMessage(r)),
                   !.out = @ \cup {Event("transcript:update")}], c)

\* generateAgentResponse after Promise.all (lines 1025-1074)
InitialRoundDone(S, c, sc) ==
  IF S.isInterrupted
  THEN EndChain([S EXCEPT !.isInterrupted = FALSE, !.status = "idle"], c)
  ELSE LET best == BestResponse(Responses(S.chains[c].cands, sc))
           S1 == Speak(SelectBest(S, "initial", S.chains[c].cands, sc), c, best.agentId,
                       "initial", best.score, FALSE)
           S2 == IF S1.nAgents > 1 /\ ~S1.isInterrupted
                 THEN PrepareFollowUp([S1 EXCEPT !.preparedFollowUp = NoFollowUp],
                                      c, best.agentId)
                 ELSE [S1 EXCEPT !.chains[c].prep = 0]
       IN [S2 EXCEPT !.chains[c].pc = "tts", !.chains[c].k = 0]

\* continueConversation after Promise.all with the score threshold left out
FollowUpRoundNoThreshold(S, c, sc) ==
  LET best == BestResponse(Responses(S.chains[c].cands, sc))
      S0 == SelectBest(S, "sync", S.chains[c].cands, sc)
  IN IF S.isInterrupted
     THEN IdleNotifyReturn(S0, c)
     ELSE [Speak(S0, c, best.agentId, "sync", best.score, FALSE)
             EXCEPT !.chains[c].pc = "tts", !.chains[c].k = 0]

\* continueConversation after Promise.all (lines 1443-1482)
FollowUpRoundDone(S, c, sc) ==
  LET best == BestResponse(Responses(S.chains[c].cands, sc))
      S0 == SelectBest(S, "sync", S.chains[c].cands, sc)
  IN IF best.score < MIN_SCORE_THRESHOLD \/ S.isInterrupted
     THEN IdleNotifyReturn(S0, c)
     ELSE [Speak(S0, c, best.agentId, "sync", best.score, FALSE)
             EXCEPT !.chains[c].pc = "tts", !.chains[c].k = 0]

\* continueAgentOnlyConversation after Promise.all (lines 1671-1713)
AgentOnlyRoundDone(S, c, sc) ==
  LET best == BestResponse(Responses(S.chains[c].cands, sc))
      S0 == SelectBest(S, "sync", S.chains[c].cands, sc)
  IN IF S.isInterrupted
     THEN IdleNotifyReturn(S0, c)
     ELSE LET S1 == Speak(S0, c, best.agentId, "sync", best.score, FALSE)
              S2 == PrepareFollowUp([S1 EXCEPT !.preparedFollowUp = NoFollowUp],
                                    c, best.agentId)
          IN [S2 EXCEPT !.chains[c].pc = "tts", !.chains[c].k = 0]

RoundDone(S, c, sc) ==
  IF S.chains[c].fn = "gar" THEN InitialRoundDone(S, c, sc)
  ELSE IF S.chains[c].fn = "cc" THEN FollowUpRoundDone(S, c, sc)
  ELSE AgentOnlyRoundDone(S, c, sc)

\* TTS interrupted: isInterrupted = false; status = 'idle';
\* currentSpeaker = undefined; return
TtsInterrupted(S, c) ==
  EndChain([S EXCEPT !.isInterrupted = FALSE, !.status = "idle",
                     !.currentSpeaker = NoAgent], c)

\* one chunk of the audio stream arrives: the body of the for await loop
ChunkReceived(S, c) ==
  IF S.chains[c].fn # "gar" /\ S.isInterrupted
  THEN TtsInterrupted(S, c)
  ELSE [S EXCEPT !.chains[c].k = @ + 1]

\* the audio stream ends: the code from the end of the for await loop to the
\* playback wait
StreamEnded(S, c) ==
  IF S.chains[c].fn = "gar"
  THEN IF S.isInterrupted
       THEN TtsInterrupted(S, c)
       ELSE WaitForPlayback(EmitAudio(S, c, "initial", FALSE), c)
  ELSE IF S.chains[c].fn = "cc"
  THEN WaitForPlayback(PrepareFollowUp(EmitAudio(S, c, "sync", FALSE), c,
                                       S.chains[c].last), c)
  ELSE WaitForPlayback(EmitAudio(S, c, "sync", FALSE), c)

\* the setInterval callback of the playback wait of c, when it sees the flag
PollInterrupted(S, c) ==
  AfterPlayback([SetStatusNotify(S, "idle") EXCEPT !.isInterrupted = FALSE,
                                                   !.currentSpeaker = NoAgent,
                                                   !.audioPlaybackResolver = 0], c)

\* the 'audio:playback:ended' listener, when a speaking conversation has a resolver
PlaybackResolved(S) ==
  AfterPlayback([S EXCEPT !.audioPlaybackResolver = 0], S.audioPlaybackResolver)

(* ------------------------ the steps of a preparation ------------------- *)
\* prepareFollowUp after Promise.all (lines 1240-1265)
PrepRoundDone(S, p, sc) ==
  IF S.isInterrupted THEN FinishPrep(S, p)
  ELSE LET cands == OtherAgents(S.nAgents, S.preps[p].last)
           best == BestResponse(Responses(cands, sc))
           S0 == SelectBest(S, "speculative", cands, sc)
       IN IF best.score < MIN_SCORE_THRESHOLD
          THEN FinishPrep(S0, p)
          ELSE [S0 EXCEPT !.preps[p].pc = "tts", !.preps[p].agentId = best.agentId,
                          !.preps[p].score = best.score, !.preps[p].k = 0]

\* one chunk arrives in prepareFollowUp
PrepChunkReceived(S, p) ==
  IF S.isInterrupted THEN FinishPrep(S, p) ELSE [S EXCEPT !.preps[p].k = @ + 1]

\* the stream of prepareFollowUp ends: final check, then the result is stored
PrepStreamEnded(S, p) ==
  IF S.isInterrupted THEN FinishPrep(S, p)
  ELSE FinishPrep([S EXCEPT !.preparedFollowUp =
                      [agentId |-> S.preps[p].agentId, score |-> S.preps[p].score,
                       intr |-> S.preps[p].intr]], p)

\* interruptConversation
Interrupted(S) ==
  [S EXCEPT !.isInterrupted = TRUE, !.status = "idle", !.currentSpeaker = NoAgent,
            !.out = @ \cup {Event("conversation:interrupted")},
            !.nInterrupts = @ + 1,
            !.quiet = @ \/ (/\ \E c \in ChainIds : S.chains[c].pc = "play"
                            /\ \A c \in ChainIds : S.chains[c].pc \in {"play", "unused"}),
            !.chains = [c \in ChainIds |->
                          [S.chains[c] EXCEPT
                             !.intStt = @ \/ S.chains[c].pc = "stt",
                             !.intGen = @ \/ (S.chains[c].pc = "gen" /\ S.chains[c].fn = "gar"),
                             !.intTts = @ \/ S.chains[c].pc = "tts"]],
            !.preps = [p \in PrepIds |->
                         [S.preps[p] EXCEPT !.intr = @ \/ S.preps[p].pc \in {"gen", "tts"}]]]

\* interruptConversation was called and no turn is in progress: the flag is
\* set, the status is idle and nothing is generating, synthesizing, playing or
\* being prepared
Pending(S) ==
  /\ S.isInterrupted
  /\ S.status = "idle"
  /\ \A c \in ChainIds : S.chains[c].pc = "unused"
  /\ \A p \in PrepIds : S.preps[p].pc = "unused"

\* processUserSpeech up to the await of STTService.transcribe, as the
\* coordinator execution c
Listening(S, c) ==
  [SetStatusNotify(S, "listening") EXCEPT !.chains[c].pc = "stt",
                                          !.chains[c].intIdle = Pending(S),
                                          !.nUtterances = @ + 1,
                                          !.quiet = FALSE]

(* ------------------------------ actions -------------------------------- *)
FreeChains == {c \in 1..limits.chains : chains[c].pc = "unused"}

Fresh(lim) ==
  /\ started = FALSE
  /\ nAgents = 0
  /\ agentOnlyMode = FALSE
  /\ messages = <<>>
  /\ status = "idle"
  /\ currentSpeaker = NoAgent
  /\ isInterrupted = FALSE
  /\ audioPlaybackResolver = 0
  /\ preparedFollowUp = NoFollowUp
  /\ chains = [c \in ChainIds |-> IdleChain]
  /\ preps = [p \in PrepIds |-> IdlePrep]
  /\ out = {}
  /\ nUtterances = 0
  /\ lastRound = NoRound
  /\ limits = lim
  /\ quiet = FALSE
  /\ nInterrupts = 0
  /\ overflow = FALSE
  /\ conversations = [id \in ConvIds |-> NewState(Shared)]
  /\ conversationIds = <<>>
  /\ created = {}
  /\ lastCall = NoCall
  /\ addressing = NoAddressing
  /\ request = NoRequest
  /\ sockets = NoSockets

Init == \E lim \in {Concurrent, Sequential} : Fresh(lim)

\* startConversation after its validations: the state is put in the map,
\* conversation:started is emitted, and the first response is scheduled
Started(S, n, agentsStartFirst, mode) ==
  [S EXCEPT !.started = TRUE, !.nAgents = n, !.agentOnlyMode = mode,
            !.out = {Event("conversation:started")},
            !.messages = IF agentsStartFirst \/ mode
                         THEN <<SystemMessage>> ELSE <<>>,
            !.chains[1].pc = IF agentsStartFirst \/ mode
                             THEN "immediate" ELSE "unused"]

\* startConversation with n existing agents
StartConversation ==
  /\ ~started
  /\ \E n \in 1..limits.agents, agentsStartFirst \in BOOLEAN, mode \in BOOLEAN :
       /\ n <= MAX_AGENTS
       /\ n <= Len(AllAgents)
       /\ mode => n >= 2
       /\ Commit(Started(Cur, n, agentsStartFirst, mode))

\* the setImmediate callback of startConversation
AutoStart ==
  \E c \in ChainIds :
    /\ chains[c].pc = "immediate"
    /\ Commit(GenerateAgentResponse(Cur, c))

\* processUserSpeech up to the await of STTService.transcribe
ProcessUserSpeech ==
  /\ started
  /\ nUtterances < limits.utterances
  /\ FreeChains # {}
  /\ LET c == CHOOSE x \in FreeChains : \A y \in FreeChains : x <= y
     IN Commit(Listening(Cur, c))

TranscriptionDone ==
  \E c \in ChainIds :
    /\ chains[c].pc = "stt"
    /\ \E r \in {"empty", NoAgent} \cup Range(Agents(nAgents)) :
         Commit(Transcribed(Cur, c, r))

GenerationDone ==
  \E c \in ChainIds :
    /\ chains[c].pc = "gen"
    /\ \E sc \in [1..Len(chains[c].cands) -> Scores] : Commit(RoundDone(Cur, c, sc))

TtsChunk ==
  \E c \in ChainIds :
    /\ chains[c].pc = "tts"
    /\ chains[c].k < NumChunks
    /\ Commit(ChunkReceived(Cur, c))

TtsEnd ==
  \E c \in ChainIds :
    /\ chains[c].pc = "tts"
    /\ chains[c].k = NumChunks
    /\ Commit(StreamEnded(Cur, c))

PollTick ==
  \E c \in ChainIds :
    /\ chains[c].pc = "play"
    /\ isInterrupted
    /\ Commit(PollInterrupted(Cur, c))

PlaybackEnded ==
  /\ started
  /\ status = "speaking"
  /\ audioPlaybackResolver # 0
  /\ Commit(PlaybackResolved(Cur))

PrepGenerationDone ==
  \E p \in PrepIds :
    /\ preps[p].pc = "gen"
    /\ \E sc \in [1..Len(OtherAgents(nAgents, preps[p].last)) -> Scores] :
         Commit(PrepRoundDone(Cur, p, sc))

PrepTtsChunk ==
  \E p \in PrepIds :
    /\ preps[p].pc = "tts"
    /\ preps[p].k < NumChunks
    /\ Commit(PrepChunkReceived(Cur, p))

PrepTtsEnd ==
  \E p \in PrepIds :
    /\ preps[p].pc = "tts"
    /\ preps[p].k = NumChunks
    /\ Commit(PrepStreamEnded(Cur, p))

InterruptConversation ==
  /\ started
  /\ nInterrupts < limits.interrupts
  /\ Commit(Interrupted(Cur))

Next ==
  \/ StartConversation
  \/ AutoStart
  \/ ProcessUserSpeech
  \/ TranscriptionDone
  \/ GenerationDone
  \/ TtsChunk
  \/ TtsEnd
  \/ PollTick
  \/ PlaybackEnded
  \/ PrepGenerationDone
  \/ PrepTtsChunk
  \/ PrepTtsEnd
  \/ InterruptConversation

Spec == Init /\ [][Next]_vars

\* the runs in which interruptConversation is never called
NextUninterrupted ==
  \/ StartConversation
  \/ AutoStart
  \/ ProcessUserSpeech
  \/ TranscriptionDone
  \/ GenerationDone
  \/ TtsChunk
  \/ TtsEnd
  \/ PlaybackEnded
  \/ PrepGenerationDone
  \/ PrepTtsChunk
  \/ PrepTtsEnd

SpecUninterrupted == Fresh(Uninterrupted) /\ [][NextUninterrupted]_vars

(* ------------------- the store of conversations ------------------------ *)
\* the variables of the conversation followed in detail
conversationVars ==
  <<started, nAgents, agentOnlyMode, messages, status, currentSpeaker,
    isInterrupted, audioPlaybackResolver, preparedFollowUp, chains, preps,
    out, nUtterances, lastRound, limits, quiet, nInterrupts, overflow>>

\* a state object when a step begins: the notifications of the step before
\* have been delivered
Begin(S) == [S EXCEPT !.out = {}, !.lastRound = NoRound]

\* a lookup that finds a state for every identifier
AlwaysInStore(id) == id \in ConvIds

\* this.conversations.has(id)
InStore(id) == id \in Range(conversationIds)

Call(op, id) == [op |-> op, id |-> id, error |-> "none"]

\* const state = this.conversations.get(conversationId);
\* if (!state) throw new Error('Conversation not found')
NotFound(convs, id) == [j \in ConvIds |-> Begin(convs[j])]

\* a step of the orchestrator that works on the state object of id only and
\* leaves it as T
OnConversation(call, id, T) ==
  /\ ~T.overflow
  /\ conversations' = [j \in ConvIds |-> IF j = id THEN T ELSE Begin(conversations[j])]
  /\ lastCall' = call
  /\ UNCHANGED <<conversationVars, addressing, request, sockets>>

FreeChainsOf(S) == {c \in 1..S.limits.chains : S.chains[c].pc = "unused"}

\* generateAgentResponse(conversationId) called by an execution that holds the
\* state object S: it throws when the identifier is no longer in the map, and
\* the caller's catch emits the error (processUserSpeech also sets status idle)
GenerateIfInStore(S, c, id, caller) ==
  IF InStore(id) THEN GenerateAgentResponse(S, c)
  ELSE EndChain([S EXCEPT !.out = @ \cup {Event("error")},
                          !.status = IF caller = "processUserSpeech" THEN "idle" ELSE @],
                c)

\* processUserSpeech after the await of STTService.transcribe, for the state
\* object S of id
TranscribedIn(S, c, id, r) ==
  IF r = "empty" \/ InStore(id) THEN Transcribed(S, c, r)
  ELSE IF Len(S.messages) >= S.limits.msgs THEN [S EXCEPT !.overflow = TRUE]
  ELSE GenerateIfInStore(
         [S EXCEPT !.messages = Append(@, UserMessage(r)),
                   !.out = @ \cup {Event("transcript:update")}], c, id, "processUserSpeech")

\* the 'audio:playback:ended' listener: the first conversation of the map, in
\* insertion order, that is speaking and has a resolver (0: none)
FirstSpeaking(convs, ids) ==
  LET speaking == {i \in 1..Len(ids) : /\ convs[ids[i]].status = "speaking"
                                       /\ convs[ids[i]].audioPlaybackResolver # 0}
  IN IF speaking = {} THEN 0
     ELSE ids[CHOOSE i \in speaking : \A j \in speaking : i <= j]

\* interruptConversation(id) on the map convs, every conversation flagged
InterruptAll(convs, id) == [j \in ConvIds |-> Interrupted(Begin(convs[j]))]

\* interruptConversation(id) on the map convs
InterruptIn(convs, id) ==
  [j \in ConvIds |-> IF j = id THEN Interrupted(Begin(convs[j])) ELSE Begin(convs[j])]

\* a call with an identifier that is not in the map throws and changes nothing
Rejected(op, id) ==
  /\ ~InStore(id)
  /\ conversations' = NotFound(conversations, id)
  /\ lastCall' = [op |-> op, id |-> id, error |-> "Conversation not found"]
  /\ UNCHANGED <<conversationIds, created, conversationVars, addressing, request, sockets>>

\* ConversationModel.create returns a new identifier; startConversation puts
\* the state of the conversation in the map
StoreStartConversation ==
  \E id \in ConvIds \ created, agentsStartFirst \in BOOLEAN :
    /\ \A j \in ConvIds \ created : id <= j
    /\ \E n \in 1..conversations[id].limits.agents :
         /\ n <= MAX_AGENTS
         /\ OnConversation(Call("start", id), id,
                           Started(Begin(conversations[id]), n, agentsStartFirst, FALSE))
    /\ conversationIds' = Append(conversationIds, id)
    /\ created' = created \cup {id}

StoreAutoStart ==
  \E id \in ConvIds, c \in ChainIds :
    /\ conversations[id].chains[c].pc = "immediate"
    /\ OnConversation(Call("step", id), id,
                      GenerateIfInStore(Begin(conversations[id]), c, id, "setImmediate"))
    /\ UNCHANGED <<conversationIds, created>>

StoreProcessUserSpeech ==
  \E id \in ConvIds :
    /\ UNCHANGED <<conversationIds, created>>
    /\ \/ Rejected("speak", id)
       \/ /\ InStore(id)
          /\ conversations[id].nUtterances < conversations[id].limits.utterances
          /\ FreeChainsOf(conversations[id]) # {}
          /\ LET free == FreeChainsOf(conversations[id])
                 c == CHOOSE x \in free : \A y \in free : x <= y
             IN OnConversation(Call("speak", id), id, Listening(Begin(conversations[id]), c))

StoreTranscriptionDone ==
  \E id \in ConvIds, c \in ChainIds, r \in {"empty", NoAgent} :
    /\ conversations[id].chains[c].pc = "stt"
    /\ OnConversation(Call("step", id), id, TranscribedIn(Begin(conversations[id]), c, id, r))
    /\ UNCHANGED <<conversationIds, created>>

StoreGenerationDone ==
  \E id \in ConvIds, c \in ChainIds :
    /\ conversations[id].chains[c].pc = "gen"
    /\ \E sc \in [1..Len(conversations[id].chains[c].cands) -> Scores] :
         OnConversation(Call("step", id), id, RoundDone(Begin(conversations[id]), c, sc))
    /\ UNCHANGED <<conversationIds, created>>

StoreTtsChunk ==
  \E id \in ConvIds, c \in ChainIds :
    /\ conversations[id].chains[c].pc = "tts"
    /\ conversations[id].chains[c].k < NumChunks
    /\ OnConversation(Call("step", id), id, ChunkReceived(Begin(conversations[id]), c))
    /\ UNCHANGED <<conversationIds, created>>

StoreTtsEnd ==
  \E id \in ConvIds, c \in ChainIds :
    /\ conversations[id].chains[c].pc = "tts"
    /\ conversations[id].chains[c].k = NumChunks
    /\ OnConversation(Call("step", id), id, StreamEnded(Begin(conversations[id]), c))
    /\ UNCHANGED <<conversationIds, created>>

StorePollTick ==
  \E id \in ConvIds, c \in ChainIds :
    /\ conversations[id].chains[c].pc = "play"
    /\ conversations[id].isInterrupted
    /\ OnConversation(Call("step", id), id, PollInterrupted(Begin(conversations[id]), c))
    /\ UNCHANGED <<conversationIds, created>>

\* the client of the conversation from reports that its playback ended:
\* orchestrator.emit('audio:playback:ended', socket.id)
StorePlaybackEnded ==
  \E from \in ConvIds :
    /\ InStore(from)
    /\ LET id == FirstSpeaking(conversations, conversationIds)
       IN /\ id # 0
          /\ OnConversation(Call("playback:ended", from), id,
                            PlaybackResolved(Begin(conversations[id])))
    /\ UNCHANGED <<conversationIds, created>>

StoreInterruptConversation ==
  \E id \in ConvIds :
    /\ UNCHANGED <<conversationIds, created>>
    /\ \/ Rejected("interrupt", id)
       \/ /\ InStore(id)
          /\ conversations[id].nInterrupts < conversations[id].limits.interrupts
          /\ conversations' = InterruptIn(conversations, id)
          /\ lastCall' = Call("interrupt", id)
          /\ UNCHANGED <<conversationVars, addressing, request, sockets>>

\* endConversation: the state is deleted from the map; the executions that
\* hold the state object go on
StoreEndConversation ==
  \E id \in ConvIds :
    \/ /\ Rejected("end", id)
       /\ UNCHANGED <<conversationIds, created>>
    \/ /\ InStore(id)
       /\ OnConversation(Call("end", id), id,
                         [Begin(conversations[id]) EXCEPT !.out = {Event("conversation:ended")}])
       /\ conversationIds' = SelectSeq(conversationIds, LAMBDA j : j # id)
       /\ UNCHANGED created

StoreNext ==
  \/ StoreStartConversation
  \/ StoreAutoStart
  \/ StoreProcessUserSpeech
  \/ StoreTranscriptionDone
  \/ StoreGenerationDone
  \/ StoreTtsChunk
  \/ StoreTtsEnd
  \/ StorePollTick
  \/ StorePlaybackEnded
  \/ StoreInterruptConversation
  \/ StoreEndConversation

SpecStore == Fresh(Shared) /\ [][StoreNext]_vars

(* --------------------- the agent a message addresses ------------------- *)
\* texts are sequences of characters; the words user messages are made of
Hey == <<"h", "e", "y">>
Hi == <<"h", "i">>
Al == <<"a", "l">>
Also == <<"a", "l", "s", "o">>
Bo == <<"b", "o">>
Lee == <<"l", "e", "e">>
Comma == <<",">>
Colon == <<":">>
Space == <<" ">>
Words == {Hey, Hi, Al, Al \o Comma, Also, Bo, Bo \o Colon, Lee}

\* agent.name.toLowerCase() of the agents: one with a single name, one with a
\* first name and a surname
FullName(a) == IF a = "a1" THEN Al ELSE Bo \o Space \o Lee

\* words.join(' ')
RECURSIVE Join(_)
Join(words) ==
  IF words = <<>> THEN <<>>
  ELSE IF Len(words) = 1 THEN words[1]
  ELSE words[1] \o Space \o Join(Tail(words))

\* the user messages resolved: lower case, trimmed, words separated by one
\* space, so that toLowerCase(), trim() and split(/\s+/) change nothing
Texts == UNION {[1..k -> Words] : k \in 1..MaxWords}

\* fullName.split(' ')[0]
FirstName(a) ==
  LET name == FullName(a)
      spaces == {i \in 1..Len(name) : name[i] = " "}
  IN IF spaces = {} THEN name
     ELSE SubSeq(name, 1, (CHOOSE i \in spaces : \A j \in spaces : i <= j) - 1)

\* text.startsWith(pattern)
StartsWith(text, pattern) ==
  Len(pattern) <= Len(text) /\ SubSeq(text, 1, Len(pattern)) = pattern

\* text.includes(pattern)
Includes(text, pattern) ==
  \E i \in 0..(Len(text) - Len(pattern)) : SubSeq(text, i + 1, i + Len(pattern)) = pattern

\* the patterns tried for one agent
Patterns(a) ==
  LET fullName == FullName(a)
      firstName == FirstName(a)
  IN {fullName, firstName,
      Hey \o Space \o fullName, Hey \o Space \o firstName,
      Hi \o Space \o fullName, Hi \o Space \o firstName,
      fullName \o Comma, firstName \o Comma,
      fullName \o Colon, firstName \o Colon}

\* patterns.some(pattern => firstThreeWords.includes(pattern) ||
\*                          messageText.startsWith(pattern))
IsAddressed(words, a) ==
  LET messageText == Join(words)
      firstThreeWords == Join(SubSeq(words, 1, IF Len(words) < 3 THEN Len(words) ELSE 3))
  IN \E pattern \in Patterns(a) :
       Includes(firstThreeWords, pattern) \/ StartsWith(messageText, pattern)

\* the loop over state.agents with its break, then
\* addressedAgent ? [addressedAgent] : state.agents
ResolveAgentsToRespond(words, n) ==
  LET addressed == {i \in 1..n : IsAddressed(words, Agents(n)[i])}
  IN IF addressed = {} THEN Agents(n)
     ELSE <<Agents(n)[CHOOSE i \in addressed : \A j \in addressed : i <= j]>>

\* generateAgentResponse resolves the candidates for the last user message
ResolveAddress ==
  \E words \in Texts, n \in 1..MaxAgents :
    /\ addressing' = [text |-> words, agents |-> n,
                      agentsToRespond |-> ResolveAgentsToRespond(words, n)]
    /\ UNCHANGED <<conversationVars, storeVars, request, sockets>>

SpecAddressing == Fresh(Sequential) /\ [][ResolveAddress]_vars

(* ------------------ the validations of startConversation --------------- *)
\* the rows of the agents table, and the identifiers a client may send
AgentTable == AllAgents \o <<"a4">>
RequestedIds == AgentTable \o <<"ghost">>
\* the agentIds of the calls, duplicates included; WHERE id IN (...) does not
\* depend on their order, so each list is taken in one order only
Requests ==
  {[i \in 1..Len(s) |-> RequestedIds[s[i]]] :
     s \in {t \in UNION {[1..k -> 1..Len(RequestedIds)] : k \in 0..MaxRequested} :
              \A i \in 1..(Len(t) - 1) : t[i] <= t[i + 1]}}

\* AgentModel.findByIds: SELECT ... WHERE id IN (...), one row for every agent
\* of the table whose id is among ids
FindByIds(ids) == SelectSeq(AgentTable, LAMBDA a : a \in Range(ids))

\* a validation that accepts every call
NoStartError(agentIds, mode) == "none"

\* the error startConversation throws, none when it goes on
StartError(agentIds, mode) ==
  LET agents == FindByIds(agentIds)
  IN IF Len(agents) # Len(agentIds) THEN "One or more agents not found"
     ELSE IF Len(agents) = 0 \/ Len(agents) > MAX_AGENTS THEN "Must have 1-3 agents"
     ELSE IF mode /\ Len(agents) < 2 THEN "Agent-only mode requires at least 2 agents"
     ELSE "none"

\* conversation:start: ConversationModel.create returns a new identifier and
\* startConversation is called with the client's agentIds; it throws, or puts
\* the state in the map
StartRequested ==
  \E id \in ConvIds \ created, agentIds \in Requests,
     agentsStartFirst \in BOOLEAN, mode \in BOOLEAN :
    LET error == StartError(agentIds, mode)
    IN /\ \A j \in ConvIds \ created : id <= j
       /\ created' = created \cup {id}
       /\ request' = [id |-> id, agentIds |-> agentIds, agentOnlyMode |-> mode,
                      error |-> error]
       /\ lastCall' = [op |-> "start", id |-> id, error |-> error]
       /\ IF error = "none"
          THEN /\ conversations' =
                    [j \in ConvIds |->
                       IF j = id
                       THEN Started(Begin(conversations[id]), Len(FindByIds(agentIds)),
                                    agentsStartFirst, mode)
                       ELSE Begin(conversations[j])]
               /\ conversationIds' = Append(conversationIds, id)
          ELSE /\ conversations' = NotFound(conversations, id)
               /\ conversationIds' = conversationIds
       /\ UNCHANGED <<conversationVars, addressing, sockets>>

NextStart ==
  \/ StartRequested
  \/ StoreEndConversation

SpecStart == Fresh(Shared) /\ [][NextStart]_vars

(* --------------------------- the connections --------------------------- *)
\* this.conversations.delete(id); this.emit('conversation:ended', id)
EndedIn(convs, id) ==
  [j \in ConvIds |->
     IF j = id THEN [Begin(convs[j]) EXCEPT !.out = {Event("conversation:ended")}]
     ELSE Begin(convs[j])]

Without(ids, id) == SelectSeq(ids, LAMBDA j : j # id)

\* socket.on('conversation:start'): the conversation of the socket is ended
\* (the handler stops there when endConversation throws), a new one is created
\* and mapped to the socket, and startConversation registers it unless its
\* validations throw
SocketStart ==
  \E s \in sockets.connected, id \in ConvIds \ created, valid \in BOOLEAN :
    LET existing == sockets.conversationOf[s]
    IN /\ \A j \in ConvIds \ created : id <= j
       /\ IF existing # 0 /\ ~InStore(existing)
          THEN /\ conversations' = NotFound(conversations, existing)
               /\ lastCall' = [op |-> "end", id |-> existing,
                               error |-> "Conversation not found"]
               /\ UNCHANGED <<conversationIds, created, sockets>>
          ELSE LET ended == IF existing = 0 THEN NotFound(conversations, id)
                            ELSE EndedIn(conversations, existing)
                   ids == IF existing = 0 THEN conversationIds
                          ELSE Without(conversationIds, existing)
               IN /\ created' = created \cup {id}
                  /\ sockets' = [sockets EXCEPT !.conversationOf[s] = id, !.owner[id] = s]
                  /\ IF valid
                     THEN /\ conversations' =
                               [ended EXCEPT ![id] = Started(Begin(conversations[id]), 1,
                                                             FALSE, FALSE)]
                          /\ conversationIds' = Append(ids, id)
                          /\ lastCall' = Call("start", id)
                     ELSE /\ conversations' = ended
                          /\ conversationIds' = ids
                          /\ lastCall' = [op |-> "start", id |-> id,
                                          error |-> "One or more agents not found"]
       /\ UNCHANGED <<conversationVars, addressing, request>>

\* socket.on('conversation:end'): the conversation the client names is ended
\* and the entry of the socket is deleted; nothing when endConversation throws
SocketEnd ==
  \E s \in sockets.connected, id \in ConvIds :
    /\ IF InStore(id)
       THEN /\ conversations' = EndedIn(conversations, id)
            /\ conversationIds' = Without(conversationIds, id)
            /\ lastCall' = Call("end", id)
            /\ sockets' = [sockets EXCEPT !.conversationOf[s] = 0]
       ELSE /\ conversations' = NotFound(conversations, id)
            /\ lastCall' = [op |-> "end", id |-> id, error |-> "Conversation not found"]
            /\ UNCHANGED <<conversationIds, sockets>>
    /\ UNCHANGED <<created, conversationVars, addressing, request>>

\* socket.on('disconnect'): the conversation of the socket is ended, an error
\* of endConversation is only logged, and the entry is deleted
SocketDisconnect ==
  \E s \in sockets.connected :
    LET id == sockets.conversationOf[s]
    IN /\ sockets' = [sockets EXCEPT !.conversationOf[s] = 0, !.connected = @ \ {s}]
       /\ IF id # 0 /\ InStore(id)
          THEN /\ conversations' = EndedIn(conversations, id)
               /\ conversationIds' = Without(conversationIds, id)
               /\ lastCall' = Call("end", id)
          ELSE /\ conversations' = NotFound(conversations, id)
               /\ lastCall' = IF id = 0 THEN Call("disconnect", 0)
                              ELSE [op |-> "end", id |-> id,
                                    error |-> "Conversation not found"]
               /\ UNCHANGED conversationIds
       /\ UNCHANGED <<created, conversationVars, addressing, request>>

NextSockets ==
  \/ SocketStart
  \/ SocketEnd
  \/ SocketDisconnect
  \/ StoreProcessUserSpeech
  \/ StoreInterruptConversation

SpecSockets == Fresh(Shared) /\ [][NextSockets]_vars

(* ------------------------ failing services ----------------------------- *)
\* what happens to one candidate of a fan-out round: the primary generator
\* (LM Studio) answers; it is unreachable (ECONNREFUSED) and the secondary
\* (Claude) answers; its inference fails otherwise and the secondary would
\* answer; neither answers; the primary answers with a text for which
\* isValidOutput is false; or the primary answers and the scoring request is
\* rate-limited (ThrottlingException)
Outcomes == {"primary", "unreachable", "inference", "down", "garbage", "throttled"}

\* the candidate's promise rejects: the fallback to the secondary generator is
\* taken on 'LM Studio server not running' in every round, on 'LM Studio
\* inference failed' in the initial round only
Rejects(round, outcome) ==
  \/ outcome = "down"
  \/ outcome = "inference" /\ round # "initial"

\* the generator the text of the candidate comes from, none when its promise
\* rejects; only the initial round applies isValidOutput and replaces a text
\* that fails it
TextOf(round, outcome) ==
  IF Rejects(round, outcome) THEN "none"
  ELSE IF outcome \in {"primary", "throttled"} THEN "primary"
  ELSE IF outcome = "garbage" /\ round # "initial" THEN "garbage"
  ELSE "secondary"

\* the texts of the candidates of the round joined in T
WithTexts(T, oc) ==
  IF T.lastRound.round = "none" THEN T
  ELSE [T EXCEPT !.lastRound.outcomes = oc,
                 !.lastRound.texts = [i \in DOMAIN oc |-> TextOf(T.lastRound.round, oc[i])]]

\* a round whose Promise.all rejects: no response is scored or selected
Aborted(S, round, cands, oc) ==
  [S EXCEPT !.lastRound = [round |-> round, cands |-> cands, scores |-> <<>>,
                           winner |-> NoAgent, outcomes |-> oc,
                           texts |-> [i \in DOMAIN oc |-> TextOf(round, oc[i])],
                           error |-> "none"]]

\* the catch of generateAgentResponse: an await of the coordinator execution c
\* (in generateAgentResponse or in a continuation it awaits) has thrown
TurnFailed(S, c) ==
  EndChain([S EXCEPT !.out = @ \cup {Event("error")}, !.status = "idle",
                     !.currentSpeaker = NoAgent, !.lastRound.error = "turn"], c)

\* the catch of processUserSpeech: STTService.transcribe has thrown
TranscriptionFailed(S, c) ==
  EndChain([S EXCEPT !.out = @ \cup {Event("error")}, !.status = "idle",
                     !.lastRound.error = "transcription"], c)

\* the catch of prepareFollowUp: logged, nothing thrown
PrepFailed(S, p) == FinishPrep([S EXCEPT !.lastRound.error = "speculative"], p)

\* the scores ClaudeService.scoreResponse returns: its catch turns every
\* failure of the request, rate limiting included, into the default score
Scored(oc, sc) ==
  [i \in DOMAIN sc |-> IF oc[i] = "throttled" THEN DEFAULT_SCORE ELSE sc[i]]

\* Promise.all of the round of the coordinator execution c settles
RoundSettled(S, c, sc, oc) ==
  LET round == IF S.chains[c].fn = "gar" THEN "initial" ELSE "sync"
  IN IF \E i \in DOMAIN oc : Rejects(round, oc[i])
     THEN TurnFailed(Aborted(S, round, S.chains[c].cands, oc), c)
     ELSE WithTexts(RoundDone(S, c, Scored(oc, sc)), oc)

\* Promise.all of the round of the preparation p settles
PrepRoundSettled(S, p, sc, oc) ==
  IF \E i \in DOMAIN oc : Rejects("speculative", oc[i])
  THEN PrepFailed(Aborted(S, "speculative", OtherAgents(S.nAgents, S.preps[p].last), oc), p)
  ELSE WithTexts(PrepRoundDone(S, p, Scored(oc, sc)), oc)

TranscriptionFails ==
  \E c \in ChainIds :
    /\ chains[c].pc = "stt"
    /\ Commit(TranscriptionFailed(Cur, c))

GenerationSettled ==
  \E c \in ChainIds :
    /\ chains[c].pc = "gen"
    /\ \E sc \in [1..Len(chains[c].cands) -> Scores],
          oc \in [1..Len(chains[c].cands) -> Outcomes] :
         Commit(RoundSettled(Cur, c, sc, oc))

\* TTSService.synthesizeStream or its stream throws
TtsFails ==
  \E c \in ChainIds :
    /\ chains[c].pc = "tts"
    /\ Commit(TurnFailed(Cur, c))

PrepGenerationSettled ==
  \E p \in PrepIds :
    /\ preps[p].pc = "gen"
    /\ \E sc \in [1..Len(OtherAgents(nAgents, preps[p].last)) -> Scores],
          oc \in [1..Len(OtherAgents(nAgents, preps[p].last)) -> Outcomes] :
         Commit(PrepRoundSettled(Cur, p, sc, oc))

PrepTtsFails ==
  \E p \in PrepIds :
    /\ preps[p].pc = "tts"
    /\ Commit(PrepFailed(Cur, p))

NextFaulty ==
  \/ StartConversation
  \/ AutoStart
  \/ ProcessUserSpeech
  \/ TranscriptionDone
  \/ TranscriptionFails
  \/ GenerationSettled
  \/ TtsChunk
  \/ TtsEnd
  \/ TtsFails
  \/ PlaybackEnded
  \/ PrepGenerationSettled
  \/ PrepTtsChunk
  \/ PrepTtsEnd
  \/ PrepTtsFails

InitFaulty == \E lim \in {Faulty, FaultyOverlapping} : Fresh(lim)

SpecFaulty == InitFaulty /\ [][NextFaulty]_vars

TypeOK ==
  /\ status \in {"idle", "listening", "thinking", "speaking"}
  /\ audioPlaybackResolver \in {0} \cup ChainIds
  /\ Len(messages) <= limits.msgs

(* ------------------------------- claims -------------------------------- *)
Spoken == {e \in out : e.ev = "agent:speaking"}
Audio == {e \in out : e.ev = "agent:audio"}

\* C1: once interruptConversation was called during a playback wait (with no
\* other coordinator execution under way), no agent message is appended (no
\* agent turn is announced) until a new user utterance is submitted
C1_NoTurnAfterInterruptedPlayback == ~(quiet /\ Spoken # {})

UserIndexes == {i \in 1..Len(messages) : messages[i].speaker = "user"}

\* the agent messages after the most recent user message (all of them when
\* there is no user message)
AgentTurnsSinceUser ==
  Cardinality({i \in 1..Len(messages) :
                 /\ IsAgent(messages[i].speaker)
                 /\ \A u \in UserIndexes : u < i})

\* C3: in normal mode at most 3 agent messages follow the most recent user
\* message
C3_AtMostThreeAgentTurns ==
  (~agentOnlyMode /\ UserIndexes # {}) => AgentTurnsSinceUser <= MAX_AGENT_TURNS

\* C4: in normal mode the chain of consecutive agent turns of a conversation
\* with no user message (auto-started) is bounded by the turn limit as well
C4_BoundedWithoutUserMessage ==
  (~agentOnlyMode /\ UserIndexes = {}) => AgentTurnsSinceUser <= MAX_AGENT_TURNS

\* the speaker of the message before the one appended last
PreviousSpeaker ==
  IF Len(messages) >= 2 THEN messages[Len(messages) - 1].speaker ELSE NoAgent

\* C5: in agent-only mode the turn appended by a continuation (cached or
\* synchronous) is the turn of an agent other than the last speaker
C5_ContinuationBySomeoneElse ==
  agentOnlyMode =>
    \A e \in Spoken : e.kind \in {"hit", "sync"} => e.agent # PreviousSpeaker

\* in agent-only mode a coordinator execution that has passed transcription
\* ends only in a step that finds the interrupted flag set: neither a score nor
\* a number of turns ends it
AgentOnlyStopsOnlyOnInterruption ==
  [][\A c \in ChainIds :
       (/\ agentOnlyMode
        /\ chains[c].pc \in {"gen", "tts", "play", "awaitprep"}
        /\ chains'[c].pc = "unused") => isInterrupted]_vars

\* the score of the winner of the round joined by the last step
BestScore == BestResponse(Responses(lastRound.cands, lastRound.scores)).score

C7_InterruptedInitialRoundDiscarded ==
  \A e \in out : e.ev \in {"agent:speaking", "transcript:update"} => ~e.intGen

\* C8: an interruption flagged while the utterance is being transcribed is
\* observed by the round the utterance triggers: no agent turn is announced or
\* appended for that utterance
C8_InterruptWhileListeningObserved ==
  \A e \in out : e.ev \in {"agent:speaking", "transcript:update"} => ~e.intStt

\* C9: the audio of a turn during whose synthesis interruptConversation was
\* called is never emitted
C9_InterruptedSynthesisNotEmitted == \A e \in Audio : ~e.intTts

\* C10: the result of a preparation that was in flight when the conversation
\* was interrupted is never stored in preparedFollowUp, and never appended or
\* emitted
C10_InterruptedPreparationDiscarded ==
  /\ ~preparedFollowUp.intr
  /\ \A e \in out : ~e.tainted

\* a prepareFollowUp execution starts in the step
PrepStarts == \E p \in PrepIds : preps[p].pc # "gen" /\ preps'[p].pc = "gen"

\* C11: whenever a speculative round is started preparedFollowUp is empty (a
\* step that starts one does not store a result after starting it, so the
\* value after the step is the value at the start)
C11_PreparationStartsWithEmptyCache ==
  [][PrepStarts => preparedFollowUp' = NoFollowUp]_vars

\* the prepareFollowUp executions in flight
PrepsInFlight == {p \in PrepIds : preps[p].pc # "unused"}

\* the coordinator executions whose turn's audio awaits playback
AwaitingPlayback == {c \in ChainIds : chains[c].pc = "play"}

\* C12: at most one speculative preparation is in flight and at most one
\* turn's audio is awaiting playback
C12_OnePreparationOnePlayback ==
  /\ Cardinality(PrepsInFlight) <= 1
  /\ Cardinality(AwaitingPlayback) <= 1

\* the conversation S is speaking and its coordinator is in a playback wait
Waiting(S) == S.status = "speaking" /\ S.audioPlaybackResolver # 0

\* C13: a playback-ended signal from the client of a conversation that waits
\* for playback changes the state of no other conversation
C13_PlaybackSignalStaysInConversation ==
  [][(lastCall'.op = "playback:ended" /\ Waiting(conversations[lastCall'.id])) =>
       \A j \in ConvIds \ {lastCall'.id} : conversations'[j] = Begin(conversations[j])]_vars

\* C14: interruptConversation(A) leaves every other conversation B as it is:
\* flag, status, currentSpeaker, messages, playback callback, preparedFollowUp
\* and the coordinator executions of B in flight
C14_InterruptLeavesOthersUnchanged ==
  [][(lastCall'.op = "interrupt" /\ lastCall'.error = "none") =>
       \A j \in ConvIds \ {lastCall'.id} : conversations'[j] = Begin(conversations[j])]_vars

\* a conversation was interrupted while another one was waiting for the
\* playback of its turn, and that one still waits, not flagged
C14_Witness ==
  /\ lastCall.op = "interrupt"
  /\ lastCall.error = "none"
  /\ conversations[lastCall.id].isInterrupted
  /\ \E j \in ConvIds \ {lastCall.id} :
       /\ Waiting(conversations[j])
       /\ ~conversations[j].isInterrupted
       /\ \E c \in ChainIds : conversations[j].chains[c].pc = "play"

\* C16: processUserSpeech, interruptConversation and endConversation called
\* with an identifier that is not in the store fail with 'Conversation not
\* found' and change nothing: the store and the state of every conversation
\* are as before, and nothing is emitted
C16_UnknownIdentifierRejected ==
  [][(/\ lastCall'.op \in {"speak", "interrupt", "end"}
      /\ lastCall'.id \notin Range(conversationIds)) =>
       /\ lastCall'.error = "Conversation not found"
       /\ conversationIds' = conversationIds
       /\ \A j \in ConvIds : conversations'[j] = Begin(conversations[j])]_vars

\* a call for a conversation that has been ended is rejected while another
\* conversation is speaking
C16_Witness ==
  /\ lastCall.error = "Conversation not found"
  /\ lastCall.op = "speak"
  /\ lastCall.id \in created
  /\ \E j \in ConvIds : InStore(j) /\ conversations[j].status = "speaking"

\* C15: while a coordinator execution is suspended in a playback wait, a
\* playback-ended signal resumes it: the listener finds status speaking and
\* the callback of that wait
C15_PlaybackSignalResumes ==
  \A c \in ChainIds :
    chains[c].pc = "play" => (status = "speaking" /\ audioPlaybackResolver = c)

\* C17: when transcription, generation or synthesis of the active turn fails,
\* an error notification is emitted and the conversation is left with status
\* idle and currentSpeaker undefined
C17_FailureLeavesIdle ==
  lastRound.error \in {"transcription", "turn"} =>
    /\ Event("error") \in out
    /\ status = "idle"
    /\ currentSpeaker = NoAgent

\* the candidates of the last round whose response was produced
Succeeded == {i \in 1..Len(lastRound.cands) : lastRound.texts[i] # "none"}

\* C18: in an initial or continuation round of two candidates or more in which
\* the response of one candidate fails and the response of another is
\* produced, the round is not aborted: no error is raised and the winner is
\* one of the candidates that succeeded
C18_OneFailureKeepsRound ==
  (/\ lastRound.round \in {"initial", "sync"}
   /\ Len(lastRound.cands) >= 2
   /\ Succeeded # {}
   /\ Succeeded # 1..Len(lastRound.cands)) =>
    /\ lastRound.error = "none"
    /\ Event("error") \notin out
    /\ lastRound.winner \in {lastRound.cands[i] : i \in Succeeded}

\* C19: a step in which a speculative preparation fails emits no error
\* notification and appends no message, leaves every turn that is being
\* synthesized or played where it is, and lets the coordinator that awaits the
\* preparation go on into a fresh round (or stop at the turn limit), as on a
\* pipeline miss
C19_PreparationFailureIsSilent ==
  [][lastRound'.error = "speculative" =>
       /\ Event("error") \notin out'
       /\ messages' = messages
       /\ \A c \in ChainIds :
            /\ chains[c].pc \in {"tts", "play"} =>
                 (chains'[c].pc = chains[c].pc /\ chains'[c].k = chains[c].k)
            /\ (chains[c].pc = "awaitprep" /\ chains'[c].pc # "awaitprep") =>
                 chains'[c].pc \in {"gen", "unused"}
       /\ (\A c \in ChainIds : chains[c].pc # "awaitprep") =>
            /\ out' = {}
            /\ UNCHANGED <<status, currentSpeaker, audioPlaybackResolver>>]_vars

\* C20: in every round, a candidate for which the primary generator is
\* unreachable gets the text of the secondary generator and is scored and
\* compared with the others, and the round emits no error notification
C20_UnreachableFallsBack ==
  \A i \in 1..Len(lastRound.cands) :
    lastRound.outcomes[i] = "unreachable" =>
      /\ lastRound.texts[i] = "secondary"
      /\ Len(lastRound.scores) = Len(lastRound.cands)
      /\ lastRound.winner \in Range(lastRound.cands)
      /\ Event("error") \notin out

\* C21: in every selection round no text that fails the quality heuristic is
\* among the scored responses: the secondary generator's output has replaced it
C21_NoInvalidTextScored ==
  \A i \in 1..Len(lastRound.cands) : lastRound.texts[i] # "garbage"

\* C22: a candidate whose scoring request is rate-limited takes part in the
\* selection with a score between 6 and 8, the round is not aborted, and a
\* warning notification is emitted
C22_RateLimitedScoreSubstituted ==
  \A i \in 1..Len(lastRound.cands) :
    (lastRound.outcomes[i] = "throttled" /\ Succeeded = 1..Len(lastRound.cands)) =>
      /\ Len(lastRound.scores) = Len(lastRound.cands)
      /\ lastRound.scores[i] \in 6..8
      /\ Event("error") \in out

\* the status changes of the turn loop
LoopTransitions ==
  {<<"idle", "listening">>, <<"listening", "thinking">>,
   <<"thinking", "speaking">>, <<"speaking", "idle">>}

\* C23: every change of status is a step of the loop idle, listening,
\* thinking, speaking, idle, or a change to idle of a step that sets or
\* consumes the interrupted flag
C23_StatusFollowsLoop ==
  [][status' # status =>
       \/ <<status, status'>> \in LoopTransitions
       \/ status' = "idle" /\ (isInterrupted \/ isInterrupted')]_vars

\* C24: every step that changes the status emits a status notification that
\* carries the new status
C24_StatusChangeNotified ==
  [][status' # status => StatusUpdate(status') \in out']_vars

\* C25: whenever the status is not speaking, currentSpeaker is undefined
C25_SpeakerOnlyWhileSpeaking ==
  status # "speaking" => currentSpeaker = NoAgent

\* the message begins with the name of the agent: its first word, or its
\* second after hey or hi, is the first name, alone or followed by , or :
\* (the full name begins with the first name)
BeginsWithName(words, a) ==
  LET k == IF words[1] \in {Hey, Hi} THEN 2 ELSE 1
  IN /\ Len(words) >= k
     /\ words[k] \in {FirstName(a), FirstName(a) \o Comma, FirstName(a) \o Colon}

\* C26: the candidates of the initial round are the one agent whose name the
\* last user message begins with, and every agent for any other message
C26_AddressedOnlyAtTheBeginning ==
  addressing.agents > 0 =>
    LET named == {a \in Range(Agents(addressing.agents)) : BeginsWithName(addressing.text, a)}
    IN IF named = {} THEN addressing.agentsToRespond = Agents(addressing.agents)
       ELSE \E a \in named : addressing.agentsToRespond = <<a>>

\* C27: a step of interruptConversation sets the interrupted flag and emits
\* the interrupted notification, and leaves status, currentSpeaker and
\* messages as they were
C27_InterruptOnlySetsFlag ==
  [][Event("conversation:interrupted") \in out' =>
       /\ isInterrupted'
       /\ UNCHANGED <<status, currentSpeaker, messages>>]_vars

\* the coordinator executions suspended in an await of their turn chain
ActiveChains ==
  {c \in ChainIds : chains[c].pc \in {"stt", "gen", "tts", "play", "awaitprep"}}

\* C28: at most one coordinator execution of the conversation is active
C28_OneCoordinatorExecution == Cardinality(ActiveChains) <= 1

\* what the caller must provide: every requested agent exists, there are
\* between one and three agents, and at least two in agent-only mode
ValidRequest(r) ==
  /\ \A i \in 1..Len(r.agentIds) : r.agentIds[i] \in Range(AgentTable)
  /\ Len(r.agentIds) \in 1..3
  /\ r.agentOnlyMode => Len(r.agentIds) >= 2

\* C29: a call of startConversation registers the conversation only if the
\* request is valid; otherwise it throws and the store is as before; the
\* number of participants of a registered conversation does not change
C29_RegistersOnlyValidRequests ==
  [][/\ request'.id # request.id =>
          /\ request'.error = "none" =>
               (ValidRequest(request') /\ request'.id \in Range(conversationIds'))
          /\ ~ValidRequest(request') => request'.error # "none"
          /\ request'.error # "none" =>
               /\ conversationIds' = conversationIds
               /\ \A j \in ConvIds : conversations'[j] = Begin(conversations[j])
     /\ \A j \in Range(conversationIds) \cap Range(conversationIds') :
          conversations'[j].nAgents = conversations[j].nAgents]_vars

\* a conversation is registered in agent-only mode with two agents, and a
\* later request is rejected
C29_Witness ==
  /\ request.error # "none"
  /\ \E j \in Range(conversationIds) :
       conversations[j].agentOnlyMode /\ conversations[j].nAgents = 2

\* C30: a conversation that endConversation has ended, or whose socket has
\* disconnected, is not in the store, and every later call of
\* processUserSpeech, interruptConversation or endConversation for a
\* conversation that is not in the store is rejected with Conversation not
\* found
C30_EndedConversationIsGone ==
  [][/\ (lastCall'.op = "end" /\ lastCall'.error = "none") =>
          lastCall'.id \notin Range(conversationIds')
     /\ (lastCall'.op \in {"speak", "interrupt", "end"} /\ ~InStore(lastCall'.id)) =>
          lastCall'.error = "Conversation not found"
     /\ \A id \in created' :
          (sockets'.owner[id] # 0 /\ sockets'.owner[id] \notin sockets'.connected) =>
            id \notin Range(conversationIds')]_vars

\* C31: the callback of a playback wait stays registered until that wait
\* resumes, so that the wait is resumed once, by the playback-ended signal or
\* by the poll; and once a wait has resumed, audioPlaybackResolver is either
\* undefined or the callback of a wait that is still in progress
C31_CallbackOncePerWait ==
  [][/\ \A c \in ChainIds :
          (chains[c].pc = "play" /\ audioPlaybackResolver = c /\ audioPlaybackResolver' # c)
            => chains'[c] # chains[c]
     /\ audioPlaybackResolver' # 0 => chains'[audioPlaybackResolver'].pc = "play"]_vars

\* C32: an interruption flagged while an execution is suspended in a playback
\* wait is observed by the poll of that wait: no step resets the flag while
\* the wait is still suspended, and the step that resumes the wait leaves
\* status idle and currentSpeaker undefined
C32_PollObservesInterruption ==
  [][\A c \in ChainIds :
       (chains[c].pc = "play" /\ isInterrupted) =>
         IF chains'[c] = chains[c]
         THEN isInterrupted'
         ELSE status' = "idle" /\ currentSpeaker' = NoAgent]_vars

\* C33: when the flag is set and a step ends the coordinator executions that
\* were waiting for a continuation round, a synthesis chunk, a playback poll
\* or a preparation, so that no execution and no preparation is left, the flag
\* is false after that step: the checkpoint that stopped on it has cleared it
C33_CheckpointClearsFlag ==
  [][(/\ isInterrupted
      /\ \E c \in ChainIds : chains[c].pc \in {"gen", "tts", "play", "awaitprep"}
      /\ \A c \in ChainIds : chains'[c].pc = "unused"
      /\ \A p \in PrepIds : preps'[p].pc = "unused")
       => ~isInterrupted']_vars

\* C34: in a run without overlapping executions, when the synthesis of a turn
\* is cancelled by an interruption (its audio was not dispatched), the message
\* of that turn, which would be the last one, is not in the history
C34_CancelledTurnLeavesNoMessage ==
  [][\A c \in ChainIds :
       (/\ limits.chains = 1
        /\ isInterrupted
        /\ chains[c].pc = "tts"
        /\ chains'[c].pc = "unused")
         => ~(/\ messages' # <<>>
              /\ messages'[Len(messages')].speaker = chains[c].last)]_vars

\* the indexes of the agent messages before the message appended last
EarlierAgentMessages ==
  {i \in 1..(Len(messages) - 1) : messages[i].speaker \notin {"user", "system"}}

\* the speaker of the agent message that immediately precedes the last message
PrecedingAgentSpeaker ==
  IF EarlierAgentMessages = {} THEN NoAgent
  ELSE messages[CHOOSE i \in EarlierAgentMessages :
                  \A j \in EarlierAgentMessages : j <= i].speaker

\* C35: in every mode the turn a continuation appends, from the cache or from
\* a synchronous round, is spoken by an agent other than the speaker of the
\* immediately preceding agent message
C35_ContinuationAlternates ==
  \A e \in Spoken : e.kind \in {"hit", "sync"} => e.agent # PrecedingAgentSpeaker

\* the notifications of a turn
TurnNotifications == {"status:update", "agent:speaking", "agent:audio", "transcript:update"}

\* a selection round, a synthesis or a playback wait of the conversation S is
\* in flight
TurnInFlight(S) == \E c \in ChainIds : S.chains[c].pc \in {"gen", "tts", "play"}

\* C36: in a step that begins after endConversation(id) has returned (the
\* conversation was registered and is no longer in the store) while a round, a
\* synthesis or a playback wait of id is in flight, no message is appended to
\* the history of id and no status, agent:speaking, agent:audio or transcript
\* notification is emitted for id
C36_NothingAfterEnd ==
  [][\A id \in ConvIds :
       (conversations[id].started /\ ~InStore(id) /\ TurnInFlight(conversations[id])) =>
         /\ conversations'[id].messages = conversations[id].messages
         /\ \A e \in conversations'[id].out : e.ev \notin TurnNotifications]_vars

\* the non-pipelined continueConversation / continueAgentOnlyConversation of
\* the coordinator execution c, called with lastSpeakerId on the state S, up
\* to its fan-out: the candidates of the round it starts, none when it returns
NonPipelinedCandidates(S, c, lastSpeakerId) ==
  IF S.isInterrupted THEN <<>>
  ELSE IF S.chains[c].fn = "cao" \/ (S.chains[c].fn = "gar" /\ S.agentOnlyMode)
  THEN OtherAgents(S.nAgents, lastSpeakerId)
  ELSE IF TurnsSinceUser(S.messages) >= MAX_AGENT_TURNS THEN <<>>
       ELSE OtherAgents(S.nAgents, lastSpeakerId)

\* the agent whose turn that round appends when the scores are sc, NoAgent
\* when the continuation returns to idle
NonPipelinedTurn(S, c, lastSpeakerId, sc) ==
  LET cands == NonPipelinedCandidates(S, c, lastSpeakerId)
  IN IF cands = <<>> THEN NoAgent
     ELSE LET best == BestResponse(Responses(cands, sc))
          IN IF S.chains[c].fn = "cao" \/ (S.chains[c].fn = "gar" /\ S.agentOnlyMode)
             THEN best.agentId
             ELSE IF best.score < MIN_SCORE_THRESHOLD THEN NoAgent ELSE best.agentId

\* the coordinator execution that continues in the step: the one that awaited
\* a preparation and leaves that wait, otherwise the one whose playback wait
\* the callback resumes
Continuing ==
  LET awaited == {c \in ChainIds : chains[c].pc = "awaitprep" /\ chains'[c].pc # "awaitprep"}
  IN IF awaited # {} THEN CHOOSE c \in awaited : TRUE ELSE audioPlaybackResolver

\* C37: with no interruption, wherever the pipelined coordinator appends a
\* cached follow-up, the non-pipelined coordinator, continuing the same
\* execution on the same history, appends a turn of the same agent for some
\* scores of its round: the two append the same sequence of speakers
C37_PipelinedAsNonPipelined ==
  [][\A e \in out' :
       (e.ev = "agent:speaking" /\ e.kind = "hit") =>
         \E sc \in [1..Len(NonPipelinedCandidates(Cur, Continuing, chains[Continuing].last))
                      -> Scores] :
           NonPipelinedTurn(Cur, Continuing, chains[Continuing].last, sc) = e.agent]_vars

\* C38: the response to an utterance submitted after interruptConversation
\* was called on an idle conversation is not cancelled: the execution of that
\* utterance leaves its transcription and its round only with an error (no
\* speech), after another interruption during the round, or by appending the
\* winner's message and announcing the winner as the speaker
C38_IdleInterruptionCancelsNothing ==
  [][\A c \in ChainIds :
       (chains[c].intIdle /\ chains'[c].pc \notin {"stt", "gen"}) =>
         \/ chains[c].intGen
         \/ Event("error") \in out'
         \/ /\ chains'[c].pc = "tts"
            /\ Len(messages') = Len(messages) + 1
            /\ status' = "speaking"
            /\ \E e \in out' : /\ e.ev = "agent:speaking"
                               /\ e.kind = "initial"
                               /\ e.intIdle
                               /\ e.agent = messages'[Len(messages')].speaker
                               /\ e.agent = currentSpeaker']_vars

\* the first agent turn of a conversation is announced in answer to an
\* utterance that was submitted after interruptConversation was called while
\* the conversation was idle
C38_Witness ==
  /\ \E e \in Spoken : e.kind = "initial" /\ e.intIdle
  /\ EarlierAgentMessages = {}
  /\ nInterrupts > 0
  /\ status = "speaking"

\* C39: a connected socket is never left mapped to a conversation that
\* startConversation rejected (one that was never put in the store), so that
\* its next conversation:start does not fail on ending that conversation
C39_RejectedStartLeavesNoMapping ==
  \A s \in sockets.connected :
    LET id == sockets.conversationOf[s]
    IN id # 0 => (InStore(id) \/ conversations[id].started)

====
